---- MODULE Spec2Model ----
(***************************************************************************)
(* A model of the users REST API: zod validation -> controller -> service  *)
(* -> in-memory repository -> error serialisation.                         *)
(*                                                                         *)
(* Strings that the program transforms (names, emails) are sequences of    *)
(* one-character strings, so that trim and toLowerCase are computed and    *)
(* not assumed.  Ids are pairs <<kind, n>>: <<"seed", n>> stands for the    *)
(* seed id '11111111-0000-0000-0000-0000000000nn', <<"v4", n>> for the n-th *)
(* value of the UUID v4 space, <<"raw", n>> for any other client string.    *)
(* Timestamps are minutes since 2024-01-01T00:00Z; ISO-8601 strings of one *)
(* format order the same way.                                              *)
(***************************************************************************)
EXTENDS Integers, Sequences, FiniteSets, TLC

\* ------------------------------------------------------------------ bounds
\* Requests served in one behaviour.
MaxRequests == 3
\* Clock ticks after server start.
MaxClock == 1
\* Pages and limits findAll is asked for directly.
MaxPage == 4
MaxPageSize == 12
\* config.rateLimit.max: the RATE_LIMIT_MAX of the deployment (requests let
\* through in one window of a minute).
RateLimitMax == 3

\* ------------------------------------------------------- program constants
NameMinLen == 2
NameMaxLen == 100
DefaultPage == 1
DefaultLimit == 10
MaxLimit == 100

\* ------------------------------------------------------------- characters
LowerLetters ==
  {"a","b","c","d","e","f","g","h","i","j","k","l","m",
   "n","o","p","q","r","s","t","u","v","w","x","y","z"}

UpperToLower ==
  [A |-> "a", B |-> "b", C |-> "c", D |-> "d", E |-> "e", F |-> "f", G |-> "g",
   H |-> "h", I |-> "i", J |-> "j", K |-> "k", L |-> "l", M |-> "m", N |-> "n",
   O |-> "o", P |-> "p", Q |-> "q", R |-> "r", S |-> "s", T |-> "t", U |-> "u",
   V |-> "v", W |-> "w", X |-> "x", Y |-> "y", Z |-> "z"]

UpperLetters == DOMAIN UpperToLower
Letters == LowerLetters \cup UpperLetters
Digits == {"0","1","2","3","4","5","6","7","8","9"}
\* What String.prototype.trim() strips; "nbsp" stands for the one character
\* U+00A0 (no-break space).
Whitespace == {" ", "\t", "\n", "\r", "nbsp"}

\* String.prototype.toLowerCase, character by character.
ToLowerCase(s) ==
  [i \in 1..Len(s) |-> IF s[i] \in UpperLetters THEN UpperToLower[s[i]] ELSE s[i]]

RECURSIVE TrimStart(_)
TrimStart(s) ==
  IF s # <<>> /\ Head(s) \in Whitespace THEN TrimStart(Tail(s)) ELSE s

RECURSIVE TrimEnd(_)
TrimEnd(s) ==
  IF s # <<>> /\ s[Len(s)] \in Whitespace
  THEN TrimEnd(SubSeq(s, 1, Len(s) - 1))
  ELSE s

\* String.prototype.trim.
Trim(s) == TrimEnd(TrimStart(s))

\* ----------------------------------------------------- zod string().email()
\* /^(?!\.)(?!.*\.\.)([A-Z0-9_'+\-\.]*)[A-Z0-9_+-]@([A-Z0-9][A-Z0-9\-]*\.)+[A-Z]{2,}$/i
AtPositions(s) == {i \in 1..Len(s) : s[i] = "@"}
DotPositions(s) == {i \in 1..Len(s) : s[i] = "."}
AlphaNum == Letters \cup Digits
LocalEndChars == AlphaNum \cup {"_", "+", "-"}
LocalChars == LocalEndChars \cup {"'", "."}

IsLocalPart(l) ==
  /\ Len(l) >= 1
  /\ \A i \in 1..Len(l) : l[i] \in LocalChars
  /\ l[Len(l)] \in LocalEndChars

\* ([A-Z0-9][A-Z0-9\-]*\.)+[A-Z]{2,} : labels between the dots, then a TLD.
IsDomain(d) ==
  LET dots == DotPositions(d)
      last == IF dots = {} THEN 0 ELSE CHOOSE i \in dots : \A j \in dots : j <= i
      LabelStart(i) == i = 1 \/ d[i - 1] = "."
  IN /\ dots # {}
     /\ Len(d) - last >= 2
     /\ \A i \in (last + 1)..Len(d) : d[i] \in Letters
     /\ \A i \in 1..last :
          \/ d[i] = "." /\ ~LabelStart(i)
          \/ d[i] \in AlphaNum
          \/ d[i] = "-" /\ ~LabelStart(i)

IsEmail(s) ==
  /\ Cardinality(AtPositions(s)) = 1
  /\ s[1] # "."
  /\ \A i \in 1..(Len(s) - 1) : ~(s[i] = "." /\ s[i + 1] = ".")
  /\ LET at == CHOOSE i \in AtPositions(s) : TRUE
     IN /\ IsLocalPart(SubSeq(s, 1, at - 1))
        /\ IsDomain(SubSeq(s, at + 1, Len(s)))

\* ------------------------------------------------------------ users.schema
UserRole == {"admin", "editor", "viewer"}

Has(obj, key) == key \in DOMAIN obj

\* The keys of the object that z.object() keeps: unknown keys are stripped.
SchemaKeys == {"name", "email", "role"}

\* name: string().min(2).max(100).trim() -- the checks run in declaration
\* order, so both length checks see the untrimmed string.
NameIssues(obj, required) ==
  IF ~Has(obj, "name") THEN (IF required THEN {"name"} ELSE {})
  ELSE IF Len(obj.name) < NameMinLen \/ Len(obj.name) > NameMaxLen THEN {"name"}
  ELSE {}

\* email: string().email().toLowerCase()
EmailIssues(obj, required) ==
  IF ~Has(obj, "email") THEN (IF required THEN {"email"} ELSE {})
  ELSE IF ~IsEmail(obj.email) THEN {"email"}
  ELSE {}

\* role: UserRole (with .default('viewer') it is never required)
RoleIssues(obj) ==
  IF Has(obj, "role") /\ obj.role \notin UserRole THEN {"role"} ELSE {}

\* Variant: the email is stored as typed.
ParsedEmail_AsGiven(obj) == obj.email

ParsedEmail(obj) == ToLowerCase(obj.email)
ParsedName(obj) == Trim(obj.name)

\* createUserSchema.safeParse: [success, data] or [success, fields].
CreateUserSchemaParse(body) ==
  LET issues == NameIssues(body, TRUE) \cup EmailIssues(body, TRUE) \cup RoleIssues(body)
  IN IF issues # {}
     THEN [success |-> FALSE, fields |-> issues]
     ELSE [success |-> TRUE,
           data |-> [name |-> ParsedName(body),
                     email |-> ParsedEmail(body),
                     role |-> IF Has(body, "role") THEN body.role ELSE "viewer"]]

\* One field of the parsed partial object: ZodOptional returns undefined for
\* an absent key without consulting the inner schema (so no default role).
\* The variant leaves the email of a partial body as typed.
PartialField_EmailAsGiven(body, k) ==
  IF k = "name" THEN ParsedName(body)
  ELSE IF k = "email" THEN body.email
  ELSE body.role

PartialField(body, k) ==
  IF k = "name" THEN ParsedName(body)
  ELSE IF k = "email" THEN ParsedEmail(body)
  ELSE body.role

\* Variant: the role default of the create schema is applied to a partial
\* body as well.
UpdateUserSchemaParse_DefaultRole(body) ==
  LET issues == NameIssues(body, FALSE) \cup EmailIssues(body, FALSE) \cup RoleIssues(body)
      keys == DOMAIN body \cap SchemaKeys
  IN IF issues # {} THEN [success |-> FALSE, fields |-> issues]
     ELSE IF keys = {} THEN [success |-> FALSE, fields |-> {"root"}]
     ELSE [success |-> TRUE,
           data |-> [k \in keys \cup {"role"} |->
                       IF k = "role" /\ ~Has(body, "role") THEN "viewer"
                       ELSE PartialField(body, k)]]

\* Variant: the partial schema without its refinement.
UpdateUserSchemaParse_NoRefine(body) ==
  LET issues == NameIssues(body, FALSE) \cup EmailIssues(body, FALSE) \cup RoleIssues(body)
      keys == DOMAIN body \cap SchemaKeys
  IN IF issues # {} THEN [success |-> FALSE, fields |-> issues]
     ELSE [success |-> TRUE, data |-> [k \in keys |-> PartialField(body, k)]]

\* updateUserSchema.safeParse: createUserSchema.partial().refine(keys > 0).
UpdateUserSchemaParse(body) ==
  LET issues == NameIssues(body, FALSE) \cup EmailIssues(body, FALSE) \cup RoleIssues(body)
      keys == DOMAIN body \cap SchemaKeys
  IN IF issues # {} THEN [success |-> FALSE, fields |-> issues]
     ELSE IF keys = {} THEN [success |-> FALSE, fields |-> {"root"}]
     ELSE [success |-> TRUE, data |-> [k \in keys |-> PartialField(body, k)]]

\* ------------------------------------------------------ paginationSchema
\* Number(value) for a query-string value written without exponent, radix
\* prefix or "Infinity": [nan, integer, positive, whole], whole being the
\* value truncated towards zero.
DigitValue(c) == CHOOSE n \in 0..9 : <<"0","1","2","3","4","5","6","7","8","9">>[n + 1] = c

IsDigits(s) == Len(s) > 0 /\ \A i \in 1..Len(s) : s[i] \in Digits

RECURSIVE DigitsValue(_)
DigitsValue(s) ==
  IF s = <<>> THEN 0
  ELSE 10 * DigitsValue(SubSeq(s, 1, Len(s) - 1)) + DigitValue(s[Len(s)])

NaN == [nan |-> TRUE, integer |-> FALSE, positive |-> FALSE, whole |-> 0]

Unsigned(s) ==
  LET dots == {i \in 1..Len(s) : s[i] = "."}
  IN IF IsDigits(s)
     THEN [nan |-> FALSE, integer |-> TRUE, positive |-> DigitsValue(s) > 0,
           whole |-> DigitsValue(s)]
     ELSE IF Cardinality(dots) # 1 THEN NaN
     ELSE LET d == CHOOSE i \in dots : TRUE
              w == SubSeq(s, 1, d - 1)
              f == SubSeq(s, d + 1, Len(s))
              fraction == \E i \in 1..Len(f) : f[i] # "0"
          IN IF \/ w = <<>> /\ f = <<>>
                \/ w # <<>> /\ ~IsDigits(w)
                \/ f # <<>> /\ ~IsDigits(f)
             THEN NaN
             ELSE [nan |-> FALSE, integer |-> ~fraction,
                   positive |-> DigitsValue(w) > 0 \/ fraction,
                   whole |-> DigitsValue(w)]

Number(value) ==
  LET t == Trim(value)
  IN IF t = <<>>
     THEN [nan |-> FALSE, integer |-> TRUE, positive |-> FALSE, whole |-> 0]
     ELSE IF t[1] = "-"
     THEN LET u == Unsigned(Tail(t))
          IN IF u.nan THEN NaN
             ELSE [nan |-> FALSE, integer |-> u.integer, positive |-> FALSE,
                   whole |-> 0 - u.whole]
     ELSE IF t[1] = "+" THEN Unsigned(Tail(t))
     ELSE Unsigned(t)

\* z.coerce.number().int().positive(): does the value pass?
PositiveInt(value) ==
  LET n == Number(value) IN ~n.nan /\ n.integer /\ n.positive

PageIssues(query) ==
  IF Has(query, "page") /\ ~PositiveInt(query.page) THEN {"page"} ELSE {}

\* limit: ... .max(100).  The variant has no upper limit.
LimitIssues_NoMax(query) ==
  IF Has(query, "limit") /\ ~PositiveInt(query.limit) THEN {"limit"} ELSE {}

LimitIssues(query) ==
  IF /\ Has(query, "limit")
     /\ ~(PositiveInt(query.limit) /\ Number(query.limit).whole <= MaxLimit)
  THEN {"limit"}
  ELSE {}

\* paginationSchema.safeParse: .default() answers an absent key before the
\* coercion sees it.
PaginationSchemaParse(query) ==
  LET issues == PageIssues(query) \cup LimitIssues(query)
  IN IF issues # {}
     THEN [success |-> FALSE, fields |-> issues]
     ELSE [success |-> TRUE,
           data |-> [page |-> IF Has(query, "page")
                              THEN Number(query.page).whole ELSE DefaultPage,
                     limit |-> IF Has(query, "limit")
                               THEN Number(query.limit).whole ELSE DefaultLimit]]

\* ------------------------------------------------------------- pagination
\* Variant: pages counted from 0.
ToOffset_PageTimesLimit(page, limit) == page * limit

ToOffset(page, limit) == (page - 1) * limit

\* Math.ceil(total / limit) for total >= 0 and limit >= 1.
Ceil(total, limit) == (total + limit - 1) \div limit

\* totalPages: Math.ceil(total / limit) || 1 -- a zero is falsy.  The
\* variant leaves the zero.
BuildPaginationMeta_NoFloor(total, page, limit) ==
  [page |-> page, limit |-> limit, total |-> total,
   totalPages |-> Ceil(total, limit)]

BuildPaginationMeta(total, page, limit) ==
  [page |-> page, limit |-> limit, total |-> total,
   totalPages |-> IF Ceil(total, limit) = 0 THEN 1 ELSE Ceil(total, limit)]

\* ------------------------------------------------------------------- ids
SeedId(n) == <<"seed", n>>
\* uuidv4(): a value it has not returned before.  The values are
\* interchangeable (the program only compares ids for equality), so they are
\* drawn in a fixed order.  No seed id is among them: the seed ids carry
\* version digit 0, a v4 UUID carries 4.
Uuidv4(used) == <<"v4", Cardinality(used) + 1>>
\* requestId(): the header as Express hands it over is absent (<<>>) or a
\* string (<<value>>); the id is the string unless it is blank.  The
\* variant reuses any string.
RequestId_AnyString(existingId, used) ==
  IF existingId # <<>> THEN existingId[1] ELSE Uuidv4(used)

RequestId(existingId, used) ==
  IF existingId # <<>> /\ Trim(existingId[1]) # <<>>
  THEN existingId[1]
  ELSE Uuidv4(used)

\* What requestId() leaves behind: the id in req.headers['x-request-id'] and
\* in the response's x-request-id.
RequestIdHeaders(existingId, used) ==
  [request |-> <<RequestId(existingId, used)>>,
   response |-> <<RequestId(existingId, used)>>]

\* A response sent before requestId() ran: the request's header is as it
\* came, the response has none.
NoRequestIdHeaders(existingId) == [request |-> existingId, response |-> <<>>]

\* An id no user ever had ('nonexistent-id' of the tests).
NonexistentId == <<"raw", 0>>

\* The id of a request whose route has no :id parameter (req.params.id is
\* undefined there).
NoId == <<"none", 0>>

\* Minutes since 2024-01-01T00:00Z of 2024-01-<day>T<hour>:<minute>Z.
Minutes(day, hour, minute) == (day - 1) * 1440 + hour * 60 + minute

SEED_USERS ==
  <<
    [id |-> SeedId(1), name |-> <<"A","l","i","c","e"," ","N","g","u","y","e","n">>,
     email |-> <<"a","l","i","c","e","@","e","x","a","m","p","l","e",".","c","o","m">>,
     role |-> "admin", createdAt |-> Minutes(10, 8, 0), updatedAt |-> Minutes(10, 8, 0)],
    [id |-> SeedId(2), name |-> <<"B","o","b"," ","C","h","e","n">>,
     email |-> <<"b","o","b","@","e","x","a","m","p","l","e",".","c","o","m">>,
     role |-> "editor", createdAt |-> Minutes(11, 9, 15), updatedAt |-> Minutes(11, 9, 15)],
    [id |-> SeedId(3), name |-> <<"C","a","r","o","l"," ","S","m","i","t","h">>,
     email |-> <<"c","a","r","o","l","@","e","x","a","m","p","l","e",".","c","o","m">>,
     role |-> "viewer", createdAt |-> Minutes(12, 10, 30), updatedAt |-> Minutes(12, 10, 30)],
    [id |-> SeedId(4), name |-> <<"D","a","v","i","d"," ","K","i","m">>,
     email |-> <<"d","a","v","i","d","@","e","x","a","m","p","l","e",".","c","o","m">>,
     role |-> "editor", createdAt |-> Minutes(13, 11, 0), updatedAt |-> Minutes(13, 11, 0)],
    [id |-> SeedId(5), name |-> <<"E","v","a"," ","M","a","r","t","i","n","e","z">>,
     email |-> <<"e","v","a","@","e","x","a","m","p","l","e",".","c","o","m">>,
     role |-> "viewer", createdAt |-> Minutes(14, 12, 0), updatedAt |-> Minutes(14, 12, 0)],
    [id |-> SeedId(6), name |-> <<"F","r","a","n","k"," ","O","b","i">>,
     email |-> <<"f","r","a","n","k","@","e","x","a","m","p","l","e",".","c","o","m">>,
     role |-> "admin", createdAt |-> Minutes(15, 13, 0), updatedAt |-> Minutes(15, 13, 0)],
    [id |-> SeedId(7), name |-> <<"G","r","a","c","e"," ","L","e","e">>,
     email |-> <<"g","r","a","c","e","@","e","x","a","m","p","l","e",".","c","o","m">>,
     role |-> "viewer", createdAt |-> Minutes(16, 14, 0), updatedAt |-> Minutes(16, 14, 0)],
    [id |-> SeedId(8), name |-> <<"H","e","n","r","y"," ","P","a","r","k">>,
     email |-> <<"h","e","n","r","y","@","e","x","a","m","p","l","e",".","c","o","m">>,
     role |-> "editor", createdAt |-> Minutes(17, 15, 0), updatedAt |-> Minutes(17, 15, 0)],
    [id |-> SeedId(9), name |-> <<"I","r","e","n","e"," ","W","a","l","s","h">>,
     email |-> <<"i","r","e","n","e","@","e","x","a","m","p","l","e",".","c","o","m">>,
     role |-> "viewer", createdAt |-> Minutes(18, 16, 0), updatedAt |-> Minutes(18, 16, 0)],
    [id |-> SeedId(10), name |-> <<"J","a","m","e","s"," ","T","o","r","r","e","s">>,
     email |-> <<"j","a","m","e","s","@","e","x","a","m","p","l","e",".","c","o","m">>,
     role |-> "editor", createdAt |-> Minutes(19, 17, 0), updatedAt |-> Minutes(19, 17, 0)]
  >>

\* ------------------------------------------------------- users.repository
Null == [null |-> TRUE]

\* Array.prototype.find / findIndex: the first of the indices that satisfy
\* the test, 0 when there is none.
FirstIndex(hits) ==
  IF hits = {} THEN 0 ELSE CHOOSE i \in hits : \A j \in hits : i <= j

\* Array.prototype.slice(from, to) for 0 <= from <= to.
Slice(s, from, to) ==
  IF from >= Len(s) THEN <<>>
  ELSE SubSeq(s, from + 1, IF to < Len(s) THEN to ELSE Len(s))

\* Variant: the slice takes one user more than the limit.
RepoFindAll_InclusiveEnd(s, page, limit) ==
  LET total == Len(s)
      offset == ToOffset(page, limit)
  IN [users |-> Slice(s, offset, offset + limit + 1), total |-> total]

RepoFindAll(s, page, limit) ==
  LET total == Len(s)
      offset == ToOffset(page, limit)
  IN [users |-> Slice(s, offset, offset + limit), total |-> total]

RepoFindById(s, id) ==
  LET i == FirstIndex({k \in 1..Len(s) : s[k].id = id})
  IN IF i = 0 THEN Null ELSE s[i]

RepoFindByEmail(s, email) ==
  LET i == FirstIndex({k \in 1..Len(s) : s[k].email = email})
  IN IF i = 0 THEN Null ELSE s[i]

NewUser(id, input, t) ==
  [id |-> id, name |-> input.name, email |-> input.email, role |-> input.role,
   createdAt |-> t, updatedAt |-> t]

\* create: [store, user].  The variant puts the new user first (unshift).
RepoCreate_Unshift(s, id, input, t) ==
  [store |-> <<NewUser(id, input, t)>> \o s, user |-> NewUser(id, input, t)]

RepoCreate(s, id, input, t) ==
  [store |-> Append(s, NewUser(id, input, t)), user |-> NewUser(id, input, t)]

\* Variant: the merge stamps both timestamps.
Merged_ResetsCreatedAt(existing, input, updatedAt) ==
  [id |-> existing.id,
   name |-> IF Has(input, "name") THEN input.name ELSE existing.name,
   email |-> IF Has(input, "email") THEN input.email ELSE existing.email,
   role |-> IF Has(input, "role") THEN input.role ELSE existing.role,
   createdAt |-> updatedAt,
   updatedAt |-> updatedAt]

\* { ...existing, ...(supplied fields), updatedAt }
Merged(existing, input, updatedAt) ==
  [id |-> existing.id,
   name |-> IF Has(input, "name") THEN input.name ELSE existing.name,
   email |-> IF Has(input, "email") THEN input.email ELSE existing.email,
   role |-> IF Has(input, "role") THEN input.role ELSE existing.role,
   createdAt |-> existing.createdAt,
   updatedAt |-> updatedAt]

\* Variant: an update of a missing id inserts the record.
RepoUpdate_Upsert(s, id, input, updatedAt) ==
  LET index == FirstIndex({k \in 1..Len(s) : s[k].id = id})
      fresh == [id |-> id, name |-> <<>>, email |-> <<>>, role |-> "viewer",
                createdAt |-> updatedAt, updatedAt |-> updatedAt]
  IN IF index = 0
     THEN [store |-> Append(s, Merged(fresh, input, updatedAt)),
           user |-> Merged(fresh, input, updatedAt)]
     ELSE [store |-> [s EXCEPT ![index] = Merged(s[index], input, updatedAt)],
           user |-> Merged(s[index], input, updatedAt)]

\* update: [store, user], user = Null when no record has the id
RepoUpdate(s, id, input, updatedAt) ==
  LET index == FirstIndex({k \in 1..Len(s) : s[k].id = id})
  IN IF index = 0
     THEN [store |-> s, user |-> Null]
     ELSE [store |-> [s EXCEPT ![index] = Merged(s[index], input, updatedAt)],
           user |-> Merged(s[index], input, updatedAt)]

\* Variant: splice(index) in place of splice(index, 1): the record and all
\* that follow it are removed.
RepoDelete_SpliceToEnd(s, id) ==
  LET index == FirstIndex({k \in 1..Len(s) : s[k].id = id})
  IN IF index = 0 THEN [store |-> s, deleted |-> FALSE]
     ELSE [store |-> SubSeq(s, 1, index - 1), deleted |-> TRUE]

\* delete: [store, deleted]
RepoDelete(s, id) ==
  LET Keep(u) == u.id # id
      kept == SelectSeq(s, Keep)
  IN [store |-> kept, deleted |-> Len(kept) < Len(s)]

\* ------------------------------------------------------------ error kinds
\* An error value is [isAppError, statusCode, code, message, details]; a
\* message is a record of its text and the values interpolated into it,
\* details is the set of failing fields ({} when the error carries none).
AppError(message, statusCode, code, details) ==
  [isAppError |-> TRUE, statusCode |-> statusCode, code |-> code,
   message |-> message, details |-> details]

NotFoundError(resource, id) ==
  AppError([text |-> "with id ... not found", resource |-> resource,
            id |-> id], 404, "RESOURCE_NOT_FOUND", {})

ConflictError(message) == AppError(message, 409, "CONFLICT", {})

ValidationError(fields) ==
  AppError([text |-> "Request validation failed"], 422, "VALIDATION_ERROR",
           fields)

\* What express.json() hands to next() for a body that is not JSON: a
\* SyntaxError of body-parser, which is no AppError.
JsonSyntaxError ==
  [isAppError |-> FALSE, statusCode |-> 400, code |-> "entity.parse.failed",
   message |-> [text |-> "Unexpected token in JSON"], details |-> {}]

\* ---------------------------------------------------------- users.service
\* Every service operation yields [ok, value, err, store].
Returned(value, s) == [ok |-> TRUE, value |-> value, err |-> Null, store |-> s]
Thrown(err, s) == [ok |-> FALSE, value |-> Null, err |-> err, store |-> s]

EmailTaken(email) ==
  [text |-> "A user with email ... already exists", email |-> email]

\* Variant: the page is taken out of the store (splice for slice).
ServiceListUsers_Splice(s, pagination) ==
  LET r == RepoFindAll(s, pagination.page, pagination.limit)
      meta == BuildPaginationMeta(r.total, pagination.page, pagination.limit)
      offset == ToOffset(pagination.page, pagination.limit)
  IN Returned([data |-> r.users, meta |-> meta],
              Slice(s, 0, offset) \o Slice(s, offset + pagination.limit, Len(s)))

ServiceListUsers(s, pagination) ==
  LET r == RepoFindAll(s, pagination.page, pagination.limit)
      meta == BuildPaginationMeta(r.total, pagination.page, pagination.limit)
  IN Returned([data |-> r.users, meta |-> meta], s)

ServiceGetUserById(s, id) ==
  LET user == RepoFindById(s, id)
  IN IF user = Null THEN Thrown(NotFoundError("User", id), s)
                    ELSE Returned(user, s)

\* Variant: createUser without the uniqueness check.
ServiceCreateUser_NoConflictCheck(s, input, id, t) ==
  LET r == RepoCreate(s, id, input, t) IN Returned(r.user, r.store)

\* Variant: the id is the position of the new record, not a UUID.
ServiceCreateUser_SequentialId(s, input, id, t) ==
  IF RepoFindByEmail(s, input.email) # Null
  THEN Thrown(ConflictError(EmailTaken(input.email)), s)
  ELSE LET r == RepoCreate(s, <<"v4", Len(s) + 1>>, input, t)
       IN Returned(r.user, r.store)

\* id and t are the values uuidv4() and new Date() give when they are reached.
ServiceCreateUser(s, input, id, t) ==
  IF RepoFindByEmail(s, input.email) # Null
  THEN Thrown(ConflictError(EmailTaken(input.email)), s)
  ELSE LET r == RepoCreate(s, id, input, t) IN Returned(r.user, r.store)

\* Variant: updateUser without the uniqueness check.
ServiceUpdateUser_NoConflictCheck(s, id, input, t) ==
  LET r == RepoUpdate(s, id, input, t)
  IN IF r.user = Null THEN Thrown(NotFoundError("User", id), r.store)
     ELSE Returned(r.user, r.store)

\* Variant: any holder of the email is a conflict, the target included.
ServiceUpdateUser_NoSelfExemption(s, id, input, t) ==
  LET existing == IF Has(input, "email") THEN RepoFindByEmail(s, input.email) ELSE Null
  IN IF existing # Null
     THEN Thrown(ConflictError(EmailTaken(input.email)), s)
     ELSE LET r == RepoUpdate(s, id, input, t)
          IN IF r.user = Null THEN Thrown(NotFoundError("User", id), r.store)
             ELSE Returned(r.user, r.store)

\* if (input.email) { findByEmail ... } then repo.update
ServiceUpdateUser(s, id, input, t) ==
  LET existing == IF Has(input, "email") /\ input.email # <<>>
                  THEN RepoFindByEmail(s, input.email) ELSE Null
  IN IF existing # Null /\ existing.id # id
     THEN Thrown(ConflictError(EmailTaken(input.email)), s)
     ELSE LET r == RepoUpdate(s, id, input, t)
          IN IF r.user = Null THEN Thrown(NotFoundError("User", id), r.store)
             ELSE Returned(r.user, r.store)

\* Variant: deleting a missing id is reported as a success.
ServiceDeleteUser_Idempotent(s, id) ==
  LET r == RepoDelete(s, id) IN Returned(Null, r.store)

ServiceDeleteUser(s, id) ==
  LET r == RepoDelete(s, id)
  IN IF ~r.deleted THEN Thrown(NotFoundError("User", id), r.store)
                   ELSE Returned(Null, r.store)

\* Does createUser get as far as uuidv4() and new Date()?
CreateReachesUuid(s, input) == RepoFindByEmail(s, input.email) = Null

\* ------------------------------------------- controller and errorHandler
\* A response is [status, code, data, message, details, layers, err]: the
\* HTTP status, the error code of the body ("OK" when the body is not an
\* error body), the body's data, the error body's message and details, the
\* layers the request went through, and the error handed to errorHandler.
NoMessage == [text |-> ""]

Success(status, data, layers) ==
  [status |-> status, code |-> "OK", data |-> data, message |-> NoMessage,
   details |-> {}, layers |-> layers, err |-> Null]

GenericMessage == [text |-> "An unexpected error occurred"]

\* errorHandler: an AppError answers with its own status and serialize();
\* anything else answers 500 with the generic message.
ErrorHandler_EchoesMessage(err, layers) ==
  IF err.isAppError
  THEN [status |-> err.statusCode, code |-> err.code, data |-> Null,
        message |-> err.message, details |-> err.details,
        layers |-> Append(layers, "errorHandler"), err |-> err]
  ELSE [status |-> 500, code |-> "INTERNAL_SERVER_ERROR", data |-> Null,
        message |-> err.message, details |-> {},
        layers |-> Append(layers, "errorHandler"), err |-> err]

ErrorHandler(err, layers) ==
  IF err.isAppError
  THEN [status |-> err.statusCode, code |-> err.code, data |-> Null,
        message |-> err.message, details |-> err.details,
        layers |-> Append(layers, "errorHandler"), err |-> err]
  ELSE [status |-> 500, code |-> "INTERNAL_SERVER_ERROR", data |-> Null,
        message |-> GenericMessage, details |-> {},
        layers |-> Append(layers, "errorHandler"), err |-> err]

\* The controller, reached after validate(): res.status(n).json({data}) on
\* success; next(err) -> errorHandler otherwise.  The variant answers every
\* success with res.json(), status 200.
\* Variant: the catch block answers with the success status before it
\* passes the error on, so the request is answered by the controller and by
\* errorHandler.
HttpResponse_AnswersThenNext(successStatus, r) ==
  IF r.ok
  THEN Success(successStatus, r.value, <<"validate", "controller", "service">>)
  ELSE [ErrorHandler(r.err, <<"validate", "controller", "service">>)
          EXCEPT !.status = successStatus]

\* The controller, reached after validate(): res.status(n).json({data}) on
\* success; next(err) -> errorHandler otherwise.  The variant answers every
\* success with res.json(), status 200.
\* Variant: next(err) sits in a finally block, so a request that was
\* answered by the controller goes on to errorHandler as well.
HttpResponse_FinallyNext(successStatus, r) ==
  IF r.ok
  THEN Success(successStatus, r.value,
               <<"validate", "controller", "service", "errorHandler">>)
  ELSE ErrorHandler(r.err, <<"validate", "controller", "service">>)

HttpResponse_AlwaysOk(successStatus, r) ==
  IF r.ok
  THEN Success(200, r.value, <<"validate", "controller", "service">>)
  ELSE ErrorHandler(r.err, <<"validate", "controller", "service">>)

HttpResponse(successStatus, r) ==
  IF r.ok
  THEN Success(successStatus, r.value, <<"validate", "controller", "service">>)
  ELSE ErrorHandler(r.err, <<"validate", "controller", "service">>)

\* ---------------------------------------------------------------- logging
\* A record handed to the logger: its level, the component that wrote it and
\* its message.
Log(level, by, msg) == [level |-> level, by |-> by, msg |-> msg]

\* The source tree holds two versions of UsersService and two of
\* errorHandler; a build has one of each.
ServiceVersions == {"users.service.ts", "server.ts"}
ErrorHandlerVersions == {"part_001", "part_002"}
Builds == [service : ServiceVersions, errorHandler : ErrorHandlerVersions]

\* logger.debug(...) of the service in server.ts; users.service.ts has none.
Debug(v, msg) ==
  IF v = "server.ts" THEN <<Log("debug", "service", msg)>> ELSE <<>>

\* The record a read writes when it succeeds: logger.debug in server.ts,
\* logger.info in users.service.ts.
ReadDone(v, msg) ==
  <<Log(IF v = "server.ts" THEN "debug" ELSE "info", "service", msg)>>

ListUsersLogs(v) == ReadDone(v, "Users listed")

GetUserByIdLogs(v, err) ==
  Debug(v, "Looking up user by id")
  \o (IF err # Null THEN <<Log("warn", "service", "User not found")>>
      ELSE ReadDone(v, "User retrieved"))

CreateUserLogs(v, err) ==
  Debug(v, "Checking email uniqueness")
  \o (IF err # Null
      THEN <<Log("warn", "service", "User creation conflict")>>
      ELSE Debug(v, "Persisting new user")
           \o <<Log("info", "service", "User created")>>)

UpdateUserLogs(v, input, err) ==
  (IF Has(input, "email") /\ input.email # <<>>
   THEN Debug(v, "Checking email uniqueness for update") ELSE <<>>)
  \o (IF err # Null /\ err.code = "CONFLICT"
      THEN <<Log("warn", "service", "User update conflict")>>
      ELSE Debug(v, "Updating user")
           \o (IF err # Null
               THEN <<Log("warn", "service", "User not found for update")>>
               ELSE <<Log("info", "service", "User updated")>>))

DeleteUserLogs(v, err) ==
  Debug(v, "Deleting user")
  \o (IF err # Null
      THEN <<Log("warn", "service", "User not found for deletion")>>
      ELSE <<Log("info", "service", "User deleted")>>)

ServiceLogs(v, op, input, err) ==
  IF op = "listUsers" THEN ListUsersLogs(v)
  ELSE IF op = "getUserById" THEN GetUserByIdLogs(v, err)
  ELSE IF op = "createUser" THEN CreateUserLogs(v, err)
  ELSE IF op = "updateUser" THEN UpdateUserLogs(v, input, err)
  ELSE IF op = "deleteUser" THEN DeleteUserLogs(v, err)
  ELSE <<>>

\* validate(): logger.warn before next(new ValidationError(fields)).
ValidateLogs(err) ==
  IF err # Null /\ err.code = "VALIDATION_ERROR"
  THEN <<Log("warn", "validate", "Request validation failed")>> ELSE <<>>

\* errorHandler: part_001 warns for an AppError, part_002 writes nothing for
\* it; both write logger.error for anything else.
ErrorHandlerLogs(v, err) ==
  IF err.isAppError
  THEN IF v = "part_001" THEN <<Log("warn", "errorHandler", "AppError")>>
       ELSE <<>>
  ELSE <<Log("error", "errorHandler", "Unhandled error")>>

\* The records one request leaves, in the order its handlers write them.
RequestLogs(b, op, input, resp) ==
  LET ran(layer) == \E i \in 1..Len(resp.layers) : resp.layers[i] = layer
  IN (IF ran("validate") THEN ValidateLogs(resp.err) ELSE <<>>)
     \o (IF ran("service") THEN ServiceLogs(b.service, op, input, resp.err)
         ELSE <<>>)
     \o (IF ran("errorHandler") THEN ErrorHandlerLogs(b.errorHandler, resp.err)
         ELSE <<>>)

\* ------------------------------------------------------------------ state
VARIABLES
  store,    \* InMemoryUserRepository.store
  now,      \* the system clock that new Date() reads
  issued,   \* the values uuidv4() has returned so far
  deleted,  \* history: ids removed by a successful DELETE
  served,   \* history: number of requests answered
  hits,     \* the rate limiter's count of requests in the current window
  before,   \* history: the store when the request being answered arrived
  last,     \* the request being answered and its response (NoRequest: none)
  calls,    \* UserService calls begun by concurrent callers, with their progress
  build,    \* the versions of UsersService and errorHandler that were built
  logs,     \* the records the request being answered has written to the logger
  proc      \* the process: its server, connections, timers, exit code, own log

vars == <<store, now, issued, deleted, served, hits, before, last, calls, build,
         logs, proc>>

\* The server starts after the newest seed record was written.
ServerStart == SEED_USERS[Len(SEED_USERS)].createdAt + 1

\* --------------------------------------------------------- request inputs
\* An optional JSON member: <<>> when absent, <<v>> when present.
Body(name, email, role, id) ==
  LET opt == [name |-> name, email |-> email, role |-> role, id |-> id]
  IN [k \in {f \in DOMAIN opt : opt[f] # <<>>} |-> opt[k][1]]

PaddedName == <<" ","Z","o","e"," ">>
ShortName == <<"X">>
\* One letter between two spaces: three characters, one after trimming.
PaddedShortName == <<" ","X"," ">>
\* A space and NameMaxLen letters: within the limit only after trimming.
PaddedLongName == [i \in 1..(NameMaxLen + 1) |-> IF i = 1 THEN " " ELSE "a"]
SeedEmailUpper == <<"A","l","i","c","e","@","E","x","a","m","p","l","e",".","c","o","m">>
FreshEmail == <<"z","o","e","@","e","x","a","m","p","l","e",".","c","o","m">>
BadEmail == <<"n","o","t","-","a","n","-","e","m","a","i","l">>

ValidPatchBodies ==
  { Body(n, e, r, <<>>) :
      n \in {<<>>, <<PaddedName>>},
      e \in {<<>>, <<SeedEmailUpper>>, <<FreshEmail>>},
      r \in {<<>>, <<"admin">>} } \ { Body(<<>>, <<>>, <<>>, <<>>) }

PatchBodies ==
  ValidPatchBodies \cup
  { Body(<<>>, <<>>, <<>>, <<>>),
    Body(<<>>, <<>>, <<>>, <<SeedId(2)>>),
    Body(<<ShortName>>, <<>>, <<>>, <<>>),
    Body(<<PaddedShortName>>, <<>>, <<>>, <<>>),
    Body(<<PaddedLongName>>, <<>>, <<>>, <<>>),
    Body(<<PaddedName>>, <<>>, <<>>, <<SeedId(2)>>) }

PostBodies ==
  { Body(<<PaddedName>>, e, r, <<>>) :
      e \in {<<SeedEmailUpper>>, <<FreshEmail>>}, r \in {<<>>, <<"admin">>} } \cup
  { Body(<<PaddedName>>, <<FreshEmail>>, <<>>, <<SeedId(1)>>),
    Body(<<>>, <<FreshEmail>>, <<>>, <<>>),
    Body(<<PaddedName>>, <<BadEmail>>, <<"superadmin">>, <<>>) }

\* GET /users?page=..&limit=..: either key may be absent.
Query(page, limit) ==
  LET opt == [page |-> page, limit |-> limit]
  IN [k \in {f \in DOMAIN opt : opt[f] # <<>>} |-> opt[k][1]]

Queries ==
  { Query(<<>>, <<>>),
    Query(<<<<"2">>>>, <<<<"3">>>>),
    Query(<<<<"a","b","c">>>>, <<>>),
    Query(<<>>, <<<<"1","0","1">>>>) }

PageValues ==
  { <<"1">>, <<"2">>, <<"3">>, <<" ","4">>, <<"1",".","0">>, <<"0">>,
    <<"-","1">>, <<"1",".","5">>, <<"a","b","c">>, <<>> }

LimitValues ==
  { <<"1">>, <<"3">>, <<"4">>, <<"1","0","0">>, <<"1","0","1">>, <<"0">>,
    <<"-","3">>, <<"2",".","5">>, <<"t","e","n">>, <<>> }

PageQueries ==
  { Query(p, l) : p \in {<<>>} \cup {<<v>> : v \in PageValues},
                  l \in {<<>>} \cup {<<v>> : v \in LimitValues} }

\* The ids a client puts in the path: ids it has seen, and one it made up.
PathIds == {SeedId(1), NonexistentId} \cup issued \cup deleted

\* ------------------------------------------------------------ the process
\* server.ts after app.listen(): the server listens and has logged so, no
\* connection is open, no signal has come, no timer is armed.  code is the
\* exit code (-1 while the process runs).
Started ==
  [phase |-> "listening", code |-> -1, conns |-> 0, signals |-> 0,
   closeCbs |-> 0, timers |-> <<>>,
   log |-> <<[level |-> "info", by |-> "server", msg |-> "Server listening"]>>]

\* ------------------------------------------------------------------ Init
NoRequest ==
  [op |-> "none", id |-> NoId, body |-> Null, input |-> Null, at |-> 0,
   status |-> 0, code |-> "none", data |-> Null, message |-> NoMessage,
   details |-> {}, layers |-> <<>>, err |-> Null, sent |-> <<>>,
   assigned |-> <<>>, header |-> <<>>]

Init ==
  /\ store = SEED_USERS
  /\ now = ServerStart
  /\ issued = {}
  /\ deleted = {}
  /\ served = 0
  /\ hits = 0
  /\ before = SEED_USERS
  /\ last = NoRequest
  /\ calls = <<>>
  /\ build = [service |-> "server.ts", errorHandler |-> "part_002"]
  /\ logs = <<>>
  /\ proc = Started

\* --------------------------------------------------------------- actions
\* Requests are served one at a time: the next one is taken up when the
\* response to the last one has gone out.
Accepting ==
  /\ served < MaxRequests /\ last = NoRequest /\ hits < RateLimitMax
  /\ proc.phase # "exited"

\* The x-request-id the clients of the users routes send ('test-correlation-id'
\* in the tests).
ClientRequestId == <<"t","e","s","t">>

\* A request and its response: sent is the x-request-id the request came
\* with, assigned the one its handlers read, header the x-request-id of the
\* response (<<>>: none).
Exchange(op, id, body, input, resp, sent, ids) ==
  [op |-> op, id |-> id, body |-> body, input |-> input, at |-> now,
   status |-> resp.status, code |-> resp.code, data |-> resp.data,
   message |-> resp.message, details |-> resp.details,
   layers |-> resp.layers, err |-> resp.err, sent |-> sent,
   assigned |-> ids.request, header |-> ids.response]

\* What every request that reaches the users router does: rateLimit counts
\* it, requestId() puts its x-request-id on the response, the handler acts.
Answer(op, id, body, input, resp, newStore) ==
  /\ served' = served + 1
  /\ hits' = hits + 1
  /\ before' = store
  /\ store' = newStore
  /\ UNCHANGED <<calls, build, proc>>
  /\ logs' = RequestLogs(build, op, input, resp)
  /\ last' = Exchange(op, id, body, input, resp, <<ClientRequestId>>,
                      RequestIdHeaders(<<ClientRequestId>>, issued))

\* validate(): a failed parse hands ValidationError(fields) to errorHandler
\* and returns, so the controller is not reached.
ValidationFailed(fields) ==
  ErrorHandler(ValidationError(fields), <<"validate">>)

\* POST /users with a body that is not JSON: express.json() passes its error
\* on, the router is skipped and errorHandler answers.
PostMalformed ==
  /\ Accepting
  /\ Answer("json", NoId, Null, Null, ErrorHandler(JsonSyntaxError, <<"json">>),
            store)
  /\ UNCHANGED <<now, issued, deleted>>

\* GET /users: validate(paginationSchema, 'query') -> controller.listUsers
GetUsers(query) ==
  /\ Accepting
  /\ LET p == PaginationSchemaParse(query)
     IN IF ~p.success
        THEN Answer("listUsers", NoId, query, Null, ValidationFailed(p.fields),
                    store)
        ELSE LET r == ServiceListUsers(store, p.data)
             IN Answer("listUsers", NoId, query, p.data, HttpResponse(200, r),
                       r.store)
  /\ UNCHANGED <<now, issued, deleted>>

\* GET /users/:id
GetUser(id) ==
  /\ Accepting
  /\ LET r == ServiceGetUserById(store, id)
     IN /\ Answer("getUserById", id, Null, Null, HttpResponse(200, r), r.store)
        /\ UNCHANGED <<now, issued, deleted>>

\* POST /users: validate(createUserSchema) -> controller.createUser
PostUsers(body) ==
  /\ Accepting
  /\ LET p == CreateUserSchemaParse(body)
     IN IF ~p.success
        THEN /\ Answer("createUser", NoId, body, Null, ValidationFailed(p.fields),
                     store)
             /\ UNCHANGED <<now, issued, deleted>>
        ELSE LET id == Uuidv4(issued)
                 r == ServiceCreateUser(store, p.data, id, now)
             IN /\ Answer("createUser", NoId, body, p.data, HttpResponse(201, r), r.store)
                /\ issued' = IF CreateReachesUuid(store, p.data)
                              THEN issued \cup {id} ELSE issued
                /\ UNCHANGED <<now, deleted>>

\* PATCH /users/:id: validate(updateUserSchema) -> controller.updateUser.
\* In the variant validate() goes on to the controller after a failed parse,
\* which then works on the body as sent.
PatchUser_NoReturn(id, body) ==
  /\ Accepting
  /\ LET p == UpdateUserSchemaParse(body)
         r == ServiceUpdateUser(store, id, IF p.success THEN p.data ELSE body,
                                now)
     IN Answer("updateUser", id, body, IF p.success THEN p.data ELSE Null,
               HttpResponse(200, r), r.store)
  /\ UNCHANGED <<now, issued, deleted>>

PatchUser(id, body) ==
  /\ Accepting
  /\ LET p == UpdateUserSchemaParse(body)
     IN IF ~p.success
        THEN /\ Answer("updateUser", id, body, Null, ValidationFailed(p.fields),
                     store)
             /\ UNCHANGED <<now, issued, deleted>>
        ELSE LET r == ServiceUpdateUser(store, id, p.data, now)
             IN /\ Answer("updateUser", id, body, p.data, HttpResponse(200, r), r.store)
                /\ UNCHANGED <<now, issued, deleted>>

\* DELETE /users/:id
DeleteUser(id) ==
  /\ Accepting
  /\ LET r == ServiceDeleteUser(store, id)
     IN /\ Answer("deleteUser", id, Null, Null, HttpResponse(204, r), r.store)
        /\ deleted' = IF r.ok THEN deleted \cup {id} ELSE deleted
        /\ UNCHANGED <<now, issued>>

\* The response goes out; the request's req/res objects are dropped.
Deliver ==
  /\ last # NoRequest
  /\ proc.phase # "exited"
  /\ last' = NoRequest
  /\ before' = store
  /\ logs' = <<>>
  /\ UNCHANGED <<store, now, issued, deleted, served, hits, calls, build, proc>>

\* A minute passes between requests: the rate limiter's window ends.
Tick ==
  /\ last = NoRequest
  /\ now < ServerStart + MaxClock
  /\ now' = now + 1
  /\ hits' = 0
  /\ UNCHANGED <<store, issued, deleted, served, before, last, calls, build,
                 logs, proc>>

Next ==
  \/ PostMalformed
  \/ \E query \in Queries : GetUsers(query)
  \/ \E id \in PathIds : GetUser(id)
  \/ \E body \in PostBodies : PostUsers(body)
  \/ \E id \in PathIds, body \in PatchBodies : PatchUser(id, body)
  \/ \E id \in PathIds : DeleteUser(id)
  \/ Deliver
  \/ Tick

Spec == Init /\ [][Next]_vars

\* res.json() / res.send() write the response in the turn that calls them,
\* and the event loop runs every turn that is ready.
LiveSpec == Spec /\ WF_vars(Deliver)

\* ------------------------------------------------------------ createApp
\* The x-request-id headers sent: none, the empty string, one no-break
\* space, an id, an id with a no-break space behind it.
SentIds ==
  { <<>>, <<<<>>>>, <<<<"nbsp">>>>, <<<<"a","b","c">>>>,
    <<<<"a","b","c","nbsp">>>> }

\* The requests sent to the application as a whole.  None of them changes
\* the store.
AppRequests ==
  << [method |-> "OPTIONS", path |-> "/users", id |-> NoId, json |-> "none"],
     [method |-> "GET", path |-> "/health", id |-> NoId, json |-> "none"],
     [method |-> "GET", path |-> "/docs.json", id |-> NoId, json |-> "none"],
     [method |-> "GET", path |-> "/nowhere", id |-> NoId, json |-> "none"],
     [method |-> "GET", path |-> "/users/:id", id |-> SeedId(1),
      json |-> "none"],
     [method |-> "GET", path |-> "/users/:id", id |-> NonexistentId,
      json |-> "none"],
     [method |-> "POST", path |-> "/users", id |-> NoId,
      json |-> "malformed"] >>

\* cors(): an OPTIONS request is a preflight, answered on the spot.
Preflight ==
  [status |-> 204, code |-> "OK", data |-> Null, message |-> NoMessage,
   details |-> {}, layers |-> <<"helmet", "cors">>, err |-> Null]

\* rateLimit(): the answer to a request beyond max in the window.
RateLimited ==
  [status |-> 429, code |-> "RATE_LIMITED",
   data |-> Null, message |-> [text |-> "Too many requests, please try again later."],
   details |-> {}, layers |-> <<"helmet", "cors", "rateLimit">>, err |-> Null]

\* The 404 fallthrough behind all routes.
RouteNotFound ==
  [status |-> 404, code |-> "RESOURCE_NOT_FOUND", data |-> Null,
   message |-> [text |-> "Route not found"], details |-> {},
   layers |-> <<"fallthrough">>, err |-> Null]

\* What lies behind requestId and httpLogger: express.json(), the docs, the
\* health check, the users router, the fallthrough, the error handler.
Routed(req) ==
  IF req.json = "malformed" THEN ErrorHandler(JsonSyntaxError, <<"json">>)
  ELSE IF req.method = "GET" /\ req.path = "/docs.json"
  THEN Success(200, [openapi |-> TRUE], <<"docs">>)
  ELSE IF req.method = "GET" /\ req.path = "/health"
  THEN Success(200, [status |-> "ok"], <<"health">>)
  ELSE IF req.method = "GET" /\ req.path = "/users/:id"
  THEN HttpResponse(200, ServiceGetUserById(store, req.id))
  ELSE RouteNotFound

\* The service method a routed request ends in, if any.
Handler(req) ==
  IF req.method = "GET" /\ req.path = "/users/:id" THEN "getUserById"
  ELSE req.method

\* One request through the chain createApp() builds: helmet, cors,
\* rateLimit, requestId, httpLogger, and what lies behind them.
Receive(req, sent) ==
  /\ last = NoRequest
  /\ served < RateLimitMax + 2
  /\ served' = served + 1
  /\ before' = store
  /\ UNCHANGED <<store, now, deleted, calls, build, proc>>
  /\ IF req.method = "OPTIONS"
     THEN /\ last' = Exchange(req.method, req.id, Null, Null, Preflight, sent,
                              NoRequestIdHeaders(sent))
          /\ logs' = <<>>
          /\ UNCHANGED <<hits, issued>>
     ELSE /\ hits' = hits + 1
          /\ IF hits + 1 > RateLimitMax
             THEN /\ last' = Exchange(req.method, req.id, Null, Null,
                                      RateLimited, sent,
                                      NoRequestIdHeaders(sent))
                  /\ logs' = <<>>
                  /\ UNCHANGED issued
             ELSE LET id == RequestId(sent, issued)
                  IN /\ last' = Exchange(req.method, req.id, Null, Null,
                                         Routed(req), sent,
                                         RequestIdHeaders(sent, issued))
                     /\ logs' = RequestLogs(build, Handler(req), Null,
                                             Routed(req))
                     /\ issued' = IF id = Uuidv4(issued)
                                   THEN issued \cup {id} ELSE issued

AppNext ==
  \/ \E k \in DOMAIN AppRequests, sent \in SentIds :
       Receive(AppRequests[k], sent)
  \/ Deliver
  \/ Tick

AppSpec == Init /\ [][AppNext]_vars

\* ----------------------------------------------- listing shrinking stores
\* The server after its oldest users have been deleted (all of them, in the
\* last case) and those requests have been answered.
PageInit ==
  /\ \E k \in 0..Len(SEED_USERS) :
       /\ store = SubSeq(SEED_USERS, k + 1, Len(SEED_USERS))
       /\ deleted = {SEED_USERS[i].id : i \in 1..k}
  /\ now = ServerStart
  /\ issued = {}
  /\ served = 0
  /\ hits = 0
  /\ before = store
  /\ last = NoRequest
  /\ calls = <<>>
  /\ build = [service |-> "server.ts", errorHandler |-> "part_002"]
  /\ logs = <<>>
  /\ proc = Started

\* The oldest user still stored, and an id that was never stored.
PageIds == {store[i].id : i \in {1} \cap DOMAIN store} \cup {NonexistentId}

PageNext ==
  \/ \E query \in PageQueries : GetUsers(query)
  \/ \E id \in PageIds : DeleteUser(id)
  \/ Deliver

PageSpec == PageInit /\ [][PageNext]_vars

\* ------------------------------------------------- either version built
\* The server as any of the builds the source tree allows.
LogInit ==
  /\ store = SEED_USERS
  /\ now = ServerStart
  /\ issued = {}
  /\ deleted = {}
  /\ served = 0
  /\ hits = 0
  /\ before = SEED_USERS
  /\ last = NoRequest
  /\ calls = <<>>
  /\ build \in Builds
  /\ logs = <<>>
  /\ proc = Started

LogSpec == LogInit /\ [][Next]_vars

\* ---------------------------------------------------------------- shutdown
MaxConnections == 1
MaxSignals == 2
ClockStepMs == 5000
ShutdownTimeoutMs == 10000

Running == proc.phase # "exited"

\* process.exit(code)
Exit(p, code) == [p EXCEPT !.phase = "exited", !.code = code]

\* A client opens a connection that it keeps alive.
Connect ==
  /\ proc.phase = "listening"
  /\ proc.conns < MaxConnections
  /\ proc' = [proc EXCEPT !.conns = @ + 1]
  /\ UNCHANGED <<store, now, issued, deleted, served, hits, before, last,
                 calls, build, logs>>

\* A connection ends.
Disconnect ==
  /\ Running
  /\ proc.conns > 0
  /\ proc' = [proc EXCEPT !.conns = @ - 1]
  /\ UNCHANGED <<store, now, issued, deleted, served, hits, before, last,
                 calls, build, logs>>

\* Variant: shutdown() without its setTimeout.
Shutdown_NoTimeout(p, signal) ==
  [p EXCEPT !.phase = "closing",
            !.signals = @ + 1,
            !.closeCbs = @ + 1,
            !.log = Append(@, Log("info", "shutdown", signal))]

\* shutdown(signal): logger.info, server.close(callback), setTimeout(10 s).
\* server.close() stops the listening; its callback waits for 'close'.
Shutdown(p, signal) ==
  [p EXCEPT !.phase = "closing",
            !.signals = @ + 1,
            !.closeCbs = @ + 1,
            !.timers = Append(@, ShutdownTimeoutMs),
            !.log = Append(@, Log("info", "shutdown", signal))]

\* process.on('SIGTERM' / 'SIGINT', () => shutdown(signal))
Signal(signal) ==
  /\ Running
  /\ proc.signals < MaxSignals
  /\ proc' = Shutdown(proc, signal)
  /\ UNCHANGED <<store, now, issued, deleted, served, hits, before, last,
                 calls, build, logs>>

\* The server has stopped listening and has no connection left: 'close' is
\* emitted on the next tick.
Drained(p) == p.phase = "closing" /\ p.conns = 0

\* The server emits 'close' when it no longer listens and its last
\* connection has ended; the first callback of server.close() logs and
\* calls process.exit(0).
ServerClosed ==
  /\ Drained(proc)
  /\ proc.closeCbs > 0
  /\ proc' = Exit([proc EXCEPT !.log = Append(@, Log("info", "shutdown",
                                                     "Server closed"))], 0)
  /\ UNCHANGED <<store, now, issued, deleted, served, hits, before, last,
                 calls, build, logs>>

Due(p) == {i \in 1..Len(p.timers) : p.timers[i] <= 0}

\* Time passes while no armed timer is due and no 'close' is pending.
Elapse ==
  /\ Running
  /\ proc.timers # <<>>
  /\ Due(proc) = {}
  /\ ~Drained(proc)
  /\ proc' = [proc EXCEPT !.timers = [i \in 1..Len(@) |-> @[i] - ClockStepMs]]
  /\ UNCHANGED <<store, now, issued, deleted, served, hits, before, last,
                 calls, build, logs>>

\* The timeout of shutdown() fires: logger.error, process.exit(1).
TimedOut ==
  /\ Running
  /\ Due(proc) # {}
  /\ proc' = Exit([proc EXCEPT
                     !.log = Append(@, Log("error", "shutdown",
                                           "Graceful shutdown timed out, forcing exit"))],
                  1)
  /\ UNCHANGED <<store, now, issued, deleted, served, hits, before, last,
                 calls, build, logs>>

\* Requests come in over the open connections, also while the server closes.
ShutdownNext ==
  \/ Connect
  \/ Disconnect
  \/ \E signal \in {"SIGTERM", "SIGINT"} : Signal(signal)
  \/ ServerClosed
  \/ Elapse
  \/ TimedOut
  \/ proc.conns > 0 /\ PostMalformed
  \/ proc.conns > 0 /\ \E id \in {SeedId(1), NonexistentId} : GetUser(id)
  \/ Deliver

\* The event loop runs due timers and 'close' callbacks, and time passes.
ShutdownSpec ==
  /\ Init
  /\ [][ShutdownNext]_vars
  /\ WF_vars(Elapse)
  /\ WF_vars(TimedOut)
  /\ WF_vars(ServerClosed)

\* ------------------------------------------- service calls in flight at once
\* Every repository method is async, so UsersService.createUser and
\* updateUser give up the thread at each await; another call runs there.
MaxCalls == 2

\* The inputs validate() hands over for the callers' bodies.
RaceCreates ==
  {CreateUserSchemaParse(b).data :
     b \in {Body(<<PaddedName>>, <<FreshEmail>>, <<>>, <<>>),
            Body(<<PaddedName>>, <<SeedEmailUpper>>, <<"admin">>, <<>>)}}
RaceUpdates ==
  {UpdateUserSchemaParse(b).data :
     b \in {Body(<<>>, <<FreshEmail>>, <<>>, <<>>),
            Body(<<PaddedName>>, <<>>, <<>>, <<>>)}}
RaceIds == {SeedId(1), SeedId(2)}

Call(op, id, input, pc, existing, user, result) ==
  [op |-> op, id |-> id, input |-> input, pc |-> pc, existing |-> existing,
   user |-> user, result |-> result]

\* createUser up to `await this.repo.findByEmail(input.email)`: the find has
\* run on the store as it is now, its result waits in a resolved promise.
BeginCreateUser(input) ==
  /\ Len(calls) < MaxCalls
  /\ calls' = Append(calls, Call("createUser", NoId, input, "findByEmail",
                                 RepoFindByEmail(store, input.email), Null, Null))
  /\ logs' = logs \o Debug(build.service, "Checking email uniqueness")
  /\ UNCHANGED <<store, now, issued, deleted, served, hits, before, last, build,
                 proc>>

\* updateUser up to its first await: findByEmail when the input has an email,
\* repo.update otherwise.
BeginUpdateUser(id, input) ==
  /\ Len(calls) < MaxCalls
  /\ IF Has(input, "email") /\ input.email # <<>>
     THEN /\ calls' = Append(calls, Call("updateUser", id, input, "findByEmail",
                                         RepoFindByEmail(store, input.email),
                                         Null, Null))
          /\ logs' = logs \o Debug(build.service,
                                   "Checking email uniqueness for update")
          /\ store' = store
     ELSE LET r == RepoUpdate(store, id, input, now)
          IN /\ calls' = Append(calls, Call("updateUser", id, input, "update",
                                            Null, r.user, Null))
             /\ logs' = logs \o Debug(build.service, "Updating user")
             /\ store' = r.store
  /\ UNCHANGED <<now, issued, deleted, served, hits, before, last, build,
                 proc>>

\* The call goes on from the await it stopped at, up to its next await or
\* its end.
Resume(k) ==
  LET c == calls[k]
      conflict == Thrown(ConflictError(EmailTaken(c.input.email)), store)
  IN /\ c.pc # "done"
     /\ IF c.pc = "findByEmail" /\ c.op = "createUser"
        THEN IF c.existing # Null
             THEN /\ calls' = [calls EXCEPT ![k].pc = "done", ![k].result = conflict]
                  /\ logs' = Append(logs, Log("warn", "service",
                                              "User creation conflict"))
                  /\ UNCHANGED <<store, issued>>
             ELSE LET id == Uuidv4(issued)
                      r == RepoCreate(store, id, c.input, now)
                  IN /\ calls' = [calls EXCEPT ![k].pc = "create", ![k].user = r.user]
                     /\ logs' = logs \o Debug(build.service, "Persisting new user")
                     /\ store' = r.store
                     /\ issued' = issued \cup {id}
        ELSE IF c.pc = "findByEmail"
        THEN IF c.existing # Null /\ c.existing.id # c.id
             THEN /\ calls' = [calls EXCEPT ![k].pc = "done", ![k].result = conflict]
                  /\ logs' = Append(logs, Log("warn", "service",
                                              "User update conflict"))
                  /\ UNCHANGED <<store, issued>>
             ELSE LET r == RepoUpdate(store, c.id, c.input, now)
                  IN /\ calls' = [calls EXCEPT ![k].pc = "update", ![k].user = r.user]
                     /\ logs' = logs \o Debug(build.service, "Updating user")
                     /\ store' = r.store
                     /\ UNCHANGED issued
        ELSE /\ calls' = [calls EXCEPT
                            ![k].pc = "done",
                            ![k].result =
                              IF c.user = Null
                              THEN Thrown(NotFoundError("User", c.id), store)
                              ELSE Returned(c.user, store)]
             /\ logs' = Append(logs,
                               IF c.user = Null
                               THEN Log("warn", "service", "User not found for update")
                               ELSE IF c.op = "createUser"
                               THEN Log("info", "service", "User created")
                               ELSE Log("info", "service", "User updated"))
             /\ UNCHANGED <<store, issued>>
     /\ UNCHANGED <<now, deleted, served, hits, before, last, build,
                 proc>>

RaceNext ==
  \/ \E input \in RaceCreates : BeginCreateUser(input)
  \/ \E id \in RaceIds, input \in RaceUpdates : BeginUpdateUser(id, input)
  \/ \E k \in DOMAIN calls : Resume(k)

RaceSpec == Init /\ [][RaceNext]_vars

\* ------------------------------------------------------ shared vocabulary
Users(s) == {s[i] : i \in 1..Len(s)}
Ids(s) == {s[i].id : i \in 1..Len(s)}
Validated == last.input # Null
\* The user with the given id (the store never holds two, see C10).
UserOf(s, id) == CHOOSE u \in Users(s) : u.id = id
\* The store without the users that have the given id, order kept.
Without(s, id) == LET Keep(u) == u.id # id IN SelectSeq(s, Keep)

\* ------------------------------------------------------------------ C1
\* C1: after any sequence of validated createUser, updateUser and deleteUser
\* requests run one at a time from the seeded store, no two users in the
\* store have the same email (compared case-insensitively).
C1_EmailsUnique ==
  Cardinality({ToLowerCase(store[i].email) : i \in 1..Len(store)}) = Len(store)

\* A created user took over the email of a deleted seed user by an update.
C1_Witness ==
  /\ last.op = "updateUser" /\ last.status = 200 /\ Has(last.input, "email")
  /\ last.id \in issued
  /\ deleted # {}
  /\ UserOf(store, last.id).email = SEED_USERS[1].email

\* ------------------------------------------------------------------ C2
\* C2: createUser with an email that a user in the store already holds,
\* compared case-insensitively, fails with CONFLICT (409) and leaves the
\* store exactly as it was.
C2_CreateDuplicateConflicts ==
  (/\ last.op = "createUser" /\ Validated
   /\ \E u \in Users(before) : ToLowerCase(u.email) = ToLowerCase(last.body.email))
  => (last.status = 409 /\ last.code = "CONFLICT" /\ store = before)

\* A create was refused for an email that differs from the stored one in case.
C2_Witness ==
  /\ last.op = "createUser" /\ last.status = 409
  /\ last.body.email \notin {u.email : u \in Users(before)}
  /\ \E u \in Users(before) : u.email = ToLowerCase(last.body.email)

\* ------------------------------------------------------------------ C3
\* C3: updateUser on an existing user fails with CONFLICT and leaves the
\* store unchanged when input.email is held by a different user, and
\* succeeds when input.email is the target's own current email.
C3_UpdateEmailConflict ==
  (/\ last.op = "updateUser" /\ Validated /\ Has(last.input, "email")
   /\ last.id \in Ids(before))
  => /\ (\E u \in Users(before) : u.id # last.id /\ u.email = last.input.email)
          => (last.status = 409 /\ last.code = "CONFLICT" /\ store = before)
     /\ UserOf(before, last.id).email = last.input.email
          => (last.status = 200 /\ UserOf(store, last.id).email = last.input.email)

\* An update to the target's own email succeeded.
C3_Witness ==
  /\ last.op = "updateUser" /\ Validated /\ Has(last.input, "email")
  /\ last.id \in Ids(before)
  /\ UserOf(before, last.id).email = last.input.email
  /\ last.status = 200

\* ------------------------------------------------------------------ C4
\* C4 as stated: updateUser with an id that is not in the store fails with
\* RESOURCE_NOT_FOUND (404) for every valid non-empty input and leaves the
\* store unchanged.
C4_Original ==
  (last.op = "updateUser" /\ Validated /\ last.id \notin Ids(before))
  => (last.status = 404 /\ last.code = "RESOURCE_NOT_FOUND" /\ store = before)

\* C4 amended: updateUser with an id that is not in the store leaves the
\* store unchanged; it fails with CONFLICT (409) when the input has an email
\* that a user in the store holds, and with RESOURCE_NOT_FOUND (404) for
\* every other valid non-empty input.
C4_UpdateMissingId ==
  (last.op = "updateUser" /\ Validated /\ last.id \notin Ids(before))
  => /\ store = before
     /\ IF Has(last.input, "email")
           /\ \E u \in Users(before) : u.email = last.input.email
        THEN last.status = 409 /\ last.code = "CONFLICT"
        ELSE last.status = 404 /\ last.code = "RESOURCE_NOT_FOUND"

\* An update of a missing id that carried a (free) email was answered 404.
C4_Witness ==
  /\ last.op = "updateUser" /\ Validated /\ last.id \notin Ids(before)
  /\ Has(last.input, "email")
  /\ last.status = 404

\* ------------------------------------------------------------------ C5
\* C5: deleteUser with an id that is not in the store fails with
\* RESOURCE_NOT_FOUND (404) and the store has as many users as before.
C5_DeleteMissingId ==
  (last.op = "deleteUser" /\ last.id \notin Ids(before))
  => (last.status = 404 /\ last.code = "RESOURCE_NOT_FOUND"
      /\ Len(store) = Len(before))

\* A delete of an id that was deleted before was answered 404.
C5_Witness ==
  /\ last.op = "deleteUser" /\ last.id \notin Ids(before)
  /\ last.id \in deleted
  /\ last.status = 404

\* ------------------------------------------------------------------ C6
\* C6: a successful deleteUser(id) removes that user and leaves every other
\* user in the store unchanged; from then on getUserById(id) fails with
\* RESOURCE_NOT_FOUND whatever operations come in between.
C6_DeletedStaysGone ==
  /\ (last.op = "deleteUser" /\ last.status = 204)
       => (last.id \in Ids(before) /\ store = Without(before, last.id))
  /\ \A id \in deleted :
       /\ id \notin Ids(store)
       /\ ~ServiceGetUserById(store, id).ok
       /\ ServiceGetUserById(store, id).err = NotFoundError("User", id)
  /\ (last.op = "getUserById" /\ last.id \in deleted)
       => (last.status = 404 /\ last.code = "RESOURCE_NOT_FOUND")

\* Seed user 1 was deleted, then a user was created with the freed email,
\* then seed user 1 was looked up.
C6_Witness ==
  /\ last.op = "getUserById" /\ last.id = SeedId(1) /\ last.id \in deleted
  /\ \E u \in Users(store) : u.id \in issued /\ u.email = SEED_USERS[1].email
  /\ last.status = 404

\* ------------------------------------------------------------------ C7
\* The email of the create input, in lower case, is held by no user.
C7_EmailFree ==
  \A u \in Users(before) : u.email # ToLowerCase(last.body.email)

\* C7 as stated: for a valid create input whose email is not in the store,
\* createUser(input) succeeds and getUserById(result.id) then returns a
\* record with the input's name, the input's email in lowercase,
\* the input's role or 'viewer' when omitted, and createdAt = updatedAt.
C7_Original ==
  (last.op = "createUser" /\ Validated /\ C7_EmailFree)
  => LET r == ServiceGetUserById(store, last.data.id)
     IN /\ last.status = 201
        /\ r.ok
        /\ r.value.name = last.body.name
        /\ r.value.email = ToLowerCase(last.body.email)
        /\ r.value.role = (IF Has(last.body, "role") THEN last.body.role ELSE "viewer")
        /\ r.value.createdAt = r.value.updatedAt

\* C7 amended: for a valid create input whose lowercased email is not in the
\* store, createUser(input) succeeds and getUserById(result.id) then returns
\* a record with the input's name trimmed of surrounding whitespace,
\* the input's email in lowercase, the input's role or 'viewer' when
\* omitted, and createdAt = updatedAt.
C7_CreateRoundTrip ==
  (last.op = "createUser" /\ Validated /\ C7_EmailFree)
  => LET r == ServiceGetUserById(store, last.data.id)
     IN /\ last.status = 201
        /\ r.ok
        /\ r.value = last.data
        /\ r.value.name = Trim(last.body.name)
        /\ r.value.email = ToLowerCase(last.body.email)
        /\ r.value.role = (IF Has(last.body, "role") THEN last.body.role ELSE "viewer")
        /\ r.value.createdAt = r.value.updatedAt

\* A user was created from a padded name, an upper-case email and no role.
C7_Witness ==
  /\ last.op = "createUser" /\ last.status = 201
  /\ ~Has(last.body, "role")
  /\ last.body.email # ToLowerCase(last.body.email)
  /\ last.body.name # Trim(last.body.name)

\* ------------------------------------------------------------------ C8
\* C8: a successful updateUser(id, input) changes in the target only the
\* fields among name, email and role that the input supplies and sets
\* updatedAt to the new timestamp; the target's id and createdAt, the
\* fields not supplied, and every other user stay unchanged.
C8_UpdateFrame ==
  (last.op = "updateUser" /\ last.status = 200)
  => /\ Len(store) = Len(before)
     /\ \A i \in 1..Len(before) :
          IF before[i].id # last.id THEN store[i] = before[i]
          ELSE /\ store[i].id = before[i].id
               /\ store[i].createdAt = before[i].createdAt
               /\ store[i].updatedAt = last.at
               /\ store[i].name =
                    (IF Has(last.body, "name") THEN Trim(last.body.name) ELSE before[i].name)
               /\ store[i].email =
                    (IF Has(last.body, "email") THEN ToLowerCase(last.body.email)
                     ELSE before[i].email)
               /\ store[i].role =
                    (IF Has(last.body, "role") THEN last.body.role ELSE before[i].role)

\* Only the name of an admin was updated, at a later time than its last
\* write, by a body that also carried an id.
C8_Witness ==
  /\ last.op = "updateUser" /\ last.status = 200
  /\ DOMAIN last.body = {"name", "id"}
  /\ UserOf(before, last.id).role = "admin"
  /\ UserOf(before, last.id).updatedAt < last.at
  /\ UserOf(store, last.id).name # UserOf(before, last.id).name

\* ------------------------------------------------------------------ C9
\* C9: every user in the store has createdAt <= updatedAt; createdAt is set
\* once by createUser and no later operation changes it.
C9_CreatedAtFixed ==
  /\ \A u \in Users(store) : u.createdAt <= u.updatedAt
  /\ \A u \in Users(store), v \in Users(before) :
       u.id = v.id => u.createdAt = v.createdAt
  /\ (last.op = "createUser" /\ last.status = 201)
       => UserOf(store, last.data.id).createdAt = last.at

\* A user made by createUser was updated at a later time.
C9_Witness ==
  /\ last.op = "updateUser" /\ last.status = 200 /\ last.id \in issued
  /\ UserOf(store, last.id).createdAt < UserOf(store, last.id).updatedAt

\* ----------------------------------------------------------------- C10
\* C10: ids are assigned by createUser and never taken from the client
\* input; no two users in the store share an id, and the id of a deleted
\* user is never given to a user created later.
C10_IdsFresh ==
  /\ \A i, j \in 1..Len(store) : i # j => store[i].id # store[j].id
  /\ \A u \in Users(store) : u.id \notin deleted
  /\ (last.op = "createUser" /\ last.status = 201)
       => /\ last.data.id \in issued
          /\ last.data.id \notin Ids(before)
          /\ Ids(store) = Ids(before) \cup {last.data.id}
          /\ Has(last.body, "id") => last.data.id # last.body.id

\* A user was created and deleted, and then a user was created by a body
\* that carried an id of its own.
C10_Witness ==
  /\ last.op = "createUser" /\ last.status = 201
  /\ Has(last.body, "id")
  /\ deleted \cap issued # {}

\* ----------------------------------------------------------------- C11
Min(a, b) == IF a < b THEN a ELSE b
Max(a, b) == IF a > b THEN a ELSE b

\* The number of users on a page, as the contract states it.
PageLength(total, page, limit) ==
  Max(0, Min(limit, total - (page - 1) * limit))

Listed == last.op = "listUsers" /\ last.status = 200

\* C11: for every page >= 1 and limit >= 1 and a store of total users,
\* findAll(page, limit) returns exactly max(0, min(limit, total -
\* (page-1)*limit)) users and the total; an offset beyond the end of the
\* store gives an empty list and no error.
C11_FindAllLength ==
  /\ \A page \in 1..MaxPage, limit \in 1..MaxPageSize :
       LET r == RepoFindAll(store, page, limit)
       IN /\ Len(r.users) = PageLength(Len(store), page, limit)
          /\ r.total = Len(store)
          /\ (page - 1) * limit >= Len(store) => r.users = <<>>
  /\ Listed =>
       /\ Len(last.data.data)
            = PageLength(Len(before), last.input.page, last.input.limit)
       /\ last.data.meta.total = Len(before)

\* A page that starts beyond the end of a store that holds users was asked
\* for and answered with an empty list.
C11_Witness ==
  /\ Listed
  /\ Len(before) > 0
  /\ (last.input.page - 1) * last.input.limit > Len(before)
  /\ last.data.data = <<>>

\* ----------------------------------------------------------------- C12
\* ceil(total / limit): the least number of pages of limit users that hold
\* total users.
PagesNeeded(total, limit) ==
  CHOOSE n \in 0..total : n * limit >= total /\ (n - 1) * limit < total

MetaAsStated(meta, total, page, limit) ==
  /\ meta.page = page
  /\ meta.limit = limit
  /\ meta.total = total
  /\ meta.totalPages = IF total = 0 THEN 1 ELSE PagesNeeded(total, limit)

\* C12: listUsers returns meta with the requested page and limit, total
\* equal to the number of users in the store at the time of the call, and
\* totalPages equal to 1 when total is 0 and to ceil(total/limit) otherwise.
C12_ListMeta ==
  /\ \A page \in 1..MaxPage, limit \in 1..MaxPageSize :
       LET r == ServiceListUsers(store, [page |-> page, limit |-> limit])
       IN r.ok /\ MetaAsStated(r.value.meta, Len(store), page, limit)
  /\ Listed => MetaAsStated(last.data.meta, Len(before), last.input.page,
                            last.input.limit)

\* The users of an empty store were listed: one page, no users.
C12_Witness ==
  /\ Listed
  /\ before = <<>>
  /\ last.data.meta.total = 0
  /\ last.data.meta.totalPages = 1

\* ----------------------------------------------------------------- C13
\* When a user was created: the seed users in seed order, then the users
\* made by createUser in the order uuidv4() named them.
CreationRank(id) == IF id[1] = "seed" THEN id[2] ELSE Len(SEED_USERS) + id[2]

IdsInOrder(s) == [i \in 1..Len(s) |-> s[i].id]

\* C13: findAll returns users in insertion order: after any sequence of
\* create, update and delete, the users of the store appear in the order in
\* which they were created (seed users first, in seed order); an update
\* keeps the user's position and a delete keeps the relative order of the
\* remaining users.
C13_InsertionOrder ==
  /\ \A i, j \in 1..Len(store) :
       i < j => CreationRank(store[i].id) < CreationRank(store[j].id)
  /\ (last.op = "createUser" /\ last.status = 201)
       => IdsInOrder(store) = Append(IdsInOrder(before), last.data.id)
  /\ (last.op = "updateUser" /\ last.status = 200)
       => IdsInOrder(store) = IdsInOrder(before)
  /\ (last.op = "deleteUser" /\ last.status = 204)
       => IdsInOrder(store) = IdsInOrder(Without(before, last.id))
  /\ Listed =>
       \A k \in 1..Len(last.data.data) :
         last.data.data[k]
           = before[(last.input.page - 1) * last.input.limit + k]
  /\ \A page \in 1..MaxPage, limit \in 1..MaxPageSize :
       LET users == RepoFindAll(store, page, limit).users
       IN \A k \in 1..Len(users) : users[k] = store[(page - 1) * limit + k]

\* Users were listed after a delete and a create: the list holds a user
\* made by createUser behind the remaining seed users.
C13_Witness ==
  /\ Listed
  /\ deleted # {}
  /\ \E k \in 2..Len(last.data.data) :
       /\ last.data.data[k].id \in issued
       /\ last.data.data[k - 1].id \notin issued

\* ----------------------------------------------------------------- C14
\* The request part that validate() parsed did not pass its schema.
FailsValidation ==
  \/ last.op = "listUsers" /\ ~PaginationSchemaParse(last.body).success
  \/ last.op = "createUser" /\ ~CreateUserSchemaParse(last.body).success
  \/ last.op = "updateUser" /\ ~UpdateUserSchemaParse(last.body).success

Passed(layer) == \E i \in 1..Len(last.layers) : last.layers[i] = layer

\* C14: a request whose body, query or path parameters fail validation is
\* answered with HTTP 422 and code VALIDATION_ERROR carrying a list of field
\* errors, the service is never invoked for that request, and the store is
\* unchanged.
C14_ValidationStops ==
  FailsValidation =>
    /\ last.status = 422
    /\ last.code = "VALIDATION_ERROR"
    /\ last.details # {}
    /\ last.data = Null
    /\ ~Passed("controller") /\ ~Passed("service")
    /\ last.input = Null
    /\ store = before

\* A PATCH of a stored user with a body that fails validation was answered,
\* after an earlier request had changed the store.
C14_Witness ==
  /\ last.op = "updateUser"
  /\ FailsValidation
  /\ last.id \in Ids(store)
  /\ store # SEED_USERS
  /\ last.status = 422

\* ----------------------------------------------------------------- C15
\* C15: the error middleware answers an operational error (an AppError)
\* with that error's own status code, code and message, and answers every
\* other thrown value with HTTP 500, code INTERNAL_SERVER_ERROR and the fixed
\* message 'An unexpected error occurred'; the original error's message
\* never appears in the response.
C15_ErrorResponses ==
  /\ Passed("errorHandler") <=> last.err # Null
  /\ last.err # Null =>
       IF last.err.isAppError
       THEN /\ last.status = last.err.statusCode
            /\ last.code = last.err.code
            /\ last.message = last.err.message
            /\ last.details = last.err.details
       ELSE /\ last.status = 500
            /\ last.code = "INTERNAL_SERVER_ERROR"
            /\ last.message = [text |-> "An unexpected error occurred"]
            /\ last.message # last.err.message
            /\ last.details = {}
            /\ last.data = Null

\* The error handler was handed an error that is no AppError.
C15_Witness ==
  /\ last.err # Null
  /\ ~last.err.isAppError
  /\ last.status = 500

\* ----------------------------------------------------------------- C16
\* The request went through the request-id middleware.
Identified == last.header # <<>>

C17_EveryResponseIdentified == last # NoRequest => last.header # <<>>

\* ----------------------------------------------------------------- C18
NameSent ==
  /\ last.op \in {"createUser", "updateUser"}
  /\ Has(last.body, "name")

\* C18: every name that createUser or updateUser stores is the trimmed
\* input and has between 2 and 100 characters; an input whose name has fewer
\* than 2 or more than 100 characters after trimming is rejected with
\* VALIDATION_ERROR, and one whose trimmed name has 2 to 100 characters is
\* accepted.
C18_NamesTrimmedInRange ==
  /\ \A u \in Users(store) : Len(u.name) \in NameMinLen..NameMaxLen
  /\ NameSent =>
       LET trimmed == Trim(last.body.name)
       IN /\ last.status \in {200, 201} => last.data.name = trimmed
          /\ Len(trimmed) \notin NameMinLen..NameMaxLen
               => last.code = "VALIDATION_ERROR" /\ "name" \in last.details
          /\ Len(trimmed) \in NameMinLen..NameMaxLen
               => "name" \notin last.details

\* ----------------------------------------------------------------- C19
\* The value is non-numeric, non-integer or not positive.
NotAPositiveInteger(value) ==
  Number(value).nan \/ ~Number(value).integer \/ ~Number(value).positive

BadPage == Has(last.body, "page") /\ NotAPositiveInteger(last.body.page)

BadLimit ==
  /\ Has(last.body, "limit")
  /\ NotAPositiveInteger(last.body.limit) \/ Number(last.body.limit).whole > 100

\* C19: listUsers is only ever invoked with an integer page >= 1 and an
\* integer limit with 1 <= limit <= 100: a missing page becomes 1, a missing
\* limit becomes 10, and a query whose page or limit is non-numeric,
\* non-integer, not positive, or a limit above 100 is answered with 422
\* VALIDATION_ERROR.
C19_PaginationGuard ==
  last.op = "listUsers" =>
    /\ Passed("service") =>
         /\ last.input.page \in Nat /\ last.input.page >= 1
         /\ last.input.limit \in 1..100
         /\ last.input.page = IF Has(last.body, "page")
                               THEN Number(last.body.page).whole ELSE 1
         /\ last.input.limit = IF Has(last.body, "limit")
                                THEN Number(last.body.limit).whole ELSE 10
    /\ (BadPage \/ BadLimit) =>
         /\ last.status = 422 /\ last.code = "VALIDATION_ERROR"
         /\ ~Passed("service")
         /\ BadPage <=> "page" \in last.details
         /\ BadLimit <=> "limit" \in last.details
    /\ ~(BadPage \/ BadLimit) => last.status = 200 /\ Passed("service")

\* A query without page and with the largest limit was passed on to
\* listUsers with page 1.
C19_Witness ==
  /\ last.op = "listUsers"
  /\ ~Has(last.body, "page")
  /\ Has(last.body, "limit")
  /\ Passed("service")
  /\ last.input = [page |-> 1, limit |-> 100]

\* ----------------------------------------------------------------- C20
\* The PATCH body supplies none of name, email and role.
NothingToUpdate ==
  /\ last.op = "updateUser"
  /\ DOMAIN last.body \cap {"name", "email", "role"} = {}

\* C20: a PATCH body that supplies none of name, email and role (an empty
\* object, or an object with only unknown keys) fails validation with 422,
\* so updateUser is never invoked with an input that changes no field.
C20_EmptyPatchRejected ==
  /\ NothingToUpdate =>
       /\ last.status = 422 /\ last.code = "VALIDATION_ERROR"
       /\ last.details = {"root"}
       /\ ~Passed("service")
       /\ store = before
  /\ (last.op = "updateUser" /\ Passed("service")) =>
       /\ DOMAIN last.input # {}
       /\ DOMAIN last.input \subseteq {"name", "email", "role"}

\* A PATCH of a stored user whose body holds only an unknown key was
\* rejected.
C20_Witness ==
  /\ NothingToUpdate
  /\ DOMAIN last.body = {"id"}
  /\ last.id \in Ids(store)
  /\ last.status = 422

\* ----------------------------------------------------------------- C21
\* C21: in every reachable state, every email in the store is in lowercase
\* and every role in the store is one of admin, editor, viewer: both
\* createUser and updateUser store the email normalized to lowercase.
C21_StoredNormalized ==
  /\ \A u \in Users(store) :
       /\ u.email = ToLowerCase(u.email)
       /\ u.role \in {"admin", "editor", "viewer"}
  /\ (/\ last.op \in {"createUser", "updateUser"}
      /\ last.status \in {200, 201}
      /\ Has(last.body, "email"))
       => /\ last.data.email = ToLowerCase(last.body.email)
          /\ UserOf(store, last.data.id).email = ToLowerCase(last.body.email)

\* An update with an email typed in capitals changed the email of a user
\* made by createUser.
C21_Witness ==
  /\ last.op = "updateUser" /\ last.status = 200
  /\ Has(last.body, "email")
  /\ last.body.email # ToLowerCase(last.body.email)
  /\ last.id \in issued
  /\ UserOf(before, last.id).email # UserOf(store, last.id).email

\* ----------------------------------------------------------------- C22
\* The statuses listed for each endpoint: its success status, and the
\* statuses of its expected failures.
ListedSuccess ==
  [listUsers |-> 200, getUserById |-> 200, createUser |-> 201,
   updateUser |-> 200, deleteUser |-> 204]

ListedFailures ==
  [listUsers |-> {422}, getUserById |-> {404}, createUser |-> {422, 409},
   updateUser |-> {422, 404, 409}, deleteUser |-> {404}]

\* C22: each users endpoint answers a successful request with its listed
\* status (GET /users 200, GET /users/:id 200, POST /users 201, PATCH
\* /users/:id 200, DELETE /users/:id 204 with an empty body), and a request
\* that fails in an expected way only with the failure codes listed for
\* that endpoint (GET list 422; GET by id 404; POST 422 or 409; PATCH 422,
\* 404 or 409; DELETE 404).
C22_EndpointStatuses ==
  last.op \in DOMAIN ListedSuccess =>
    /\ last.err = Null =>
         /\ last.status = ListedSuccess[last.op]
         /\ last.code = "OK"
         /\ last.op = "deleteUser" => last.data = Null
         /\ last.op # "deleteUser" => last.data # Null
    /\ last.err # Null =>
         /\ last.err.isAppError
         /\ last.status \in ListedFailures[last.op]
         /\ last.data = Null

\* A user made by createUser was deleted: 204 and nothing in the body.
C22_Witness ==
  /\ last.op = "deleteUser"
  /\ last.id \in issued
  /\ last.status = 204
  /\ last.data = Null

\* ------------------------------------------------------------------ C23
\* C23: when two createUser or updateUser calls are in flight at once and
\* their steps (findByEmail, then create or update) interleave at the await
\* points, the store still never holds two users with the same email.
C23_NoDuplicateWhileInFlight ==
  \A i \in 1..Len(store), j \in 1..Len(store) :
    store[i].email = store[j].email => i = j

\* ------------------------------------------------------------------ C24
Answered == last.op # "none"
Occurrences(layer) ==
  Cardinality({i \in 1..Len(last.layers) : last.layers[i] = layer})

Count(levels) ==
  Cardinality({i \in 1..Len(logs) : logs[i].level \in levels})

\* C25: listUsers and getUserById, when they succeed, write only debug
\* records to the log and never an info record.
C25_ReadsLogDebugOnly ==
  (last.op \in {"listUsers", "getUserById"} /\ last.err = Null)
    => /\ logs # <<>>
       /\ \A i \in 1..Len(logs) : logs[i].level = "debug"

\* ------------------------------------------------------------------ C26
ExpectedFailure ==
  last.err # Null /\ last.err.code \in {"RESOURCE_NOT_FOUND", "CONFLICT"}

\* C26: a request leaves exactly one info-or-warn record in the log, over
\* all the layers it passes through, errorHandler included: one info record
\* for a successful create, update or delete, one warn record for a request
\* that ends in not-found or conflict.
C26_OneSignificantRecord ==
  /\ (last.op \in {"createUser", "updateUser", "deleteUser"} /\ last.err = Null)
       => Count({"info"}) = 1 /\ Count({"warn", "error"}) = 0
  /\ ExpectedFailure
       => Count({"warn"}) = 1 /\ Count({"info", "error"}) = 0

\* ------------------------------------------------------------------ C27
AllLogs == logs \o proc.log

\* C27: every error-level record in the log was written by errorHandler, and
\* only for a failure that is no AppError; no other component logs at error
\* level, and an expected failure is never logged at error level.
C27_ErrorLevelOnlyInErrorHandler ==
  \A i \in 1..Len(AllLogs) :
    AllLogs[i].level = "error"
      => /\ AllLogs[i].by = "errorHandler"
         /\ last.err # Null
         /\ ~last.err.isAppError

\* ------------------------------------------------------------------ C30
Signalled == proc.signals > 0
Exited == proc.phase = "exited"

\* C30: after a SIGTERM or SIGINT the process eventually exits: with code 0
\* once the server has closed, or with code 1 when closing has not finished
\* when the 10 second timeout of the first signal fires; also when a second
\* signal comes while the first shutdown is in progress.
C30_ShutdownExits ==
  /\ [](Exited =>
          /\ Signalled
          /\ proc.code \in {0, 1}
          /\ proc.code = 0 => proc.conns = 0
          /\ proc.code = 1 => 1 \in Due(proc))
  /\ (Signalled ~> Exited)

\* A second signal came during the shutdown, a connection stayed open and
\* the timeout ended the process.
C30_Witness ==
  /\ Exited
  /\ proc.signals = 2
  /\ proc.conns > 0
  /\ proc.code = 1

\* ------------------------------------------------------------------ C28
ListedPage(s, page, limit) ==
  ServiceListUsers(s, [page |-> page, limit |-> limit]).value

\* The data lists of pages page, page + 1, ..., totalPages, one after the other.
RECURSIVE PagesFrom(_, _, _, _)
PagesFrom(s, page, limit, totalPages) ==
  IF page > totalPages THEN <<>>
  ELSE ListedPage(s, page, limit).data
       \o PagesFrom(s, page + 1, limit, totalPages)

\* C28: for a fixed limit and an unchanged store, the data lists listUsers
\* returns for pages 1, 2, ..., totalPages, put together in page order, are
\* the store in order (so every user is on exactly one page), and every page
\* beyond totalPages is empty.
C28_PagesPartitionStore ==
  \A limit \in 1..MaxPageSize :
    LET totalPages == ListedPage(store, 1, limit).meta.totalPages
    IN /\ PagesFrom(store, 1, limit, totalPages) = store
       /\ \A page \in (totalPages + 1)..(totalPages + MaxPage) :
            ListedPage(store, page, limit).data = <<>>

\* The last of several pages was listed, and it is not full.
C28_Witness ==
  /\ Listed
  /\ last.data.meta.page = last.data.meta.totalPages
  /\ last.data.meta.page > 1
  /\ Len(last.data.data) > 0
  /\ Len(last.data.data) < last.data.meta.limit
  /\ last.data.data = PagesFrom(store, last.data.meta.page, last.data.meta.limit,
                                last.data.meta.totalPages)

\* ------------------------------------------------------------------ C29
\* C29: listUsers and getUserById leave the store as it was, whether they
\* succeed or fail: the same users, with the same fields, in the same order.
C29_ReadsLeaveStore ==
  /\ last.op \in {"listUsers", "getUserById"} => store = before
  /\ \A id \in PathIds : ServiceGetUserById(store, id).store = store
  /\ \A page \in 1..MaxPage, limit \in {1, DefaultLimit} :
       ServiceListUsers(store, [page |-> page, limit |-> limit]).store = store

\* A read of an id that is not stored failed, after a user had been created.
C29_Witness ==
  /\ last.op = "getUserById"
  /\ last.status = 404
  /\ issued # {}
  /\ store = before

====
